---- MODULE Spec2Model ----
(***************************************************************************)
(* Model of taxadb's parsers (src/taxadb/parser.py):                       *)
(*   - TaxaParser.check_file                                               *)
(*   - TaxaDumpParser.taxdump and its two setters                          *)
(*   - Accession2TaxidParser.accession2taxid and its setter                *)
(*                                                                         *)
(* A Python string is a tuple of one-character strings, so that split,     *)
(* strip and rstrip are computed character by character.  The one          *)
(* abbreviation is the character "S", which stands for the literal text    *)
(* 'scientific name' (the marker looked for in names.dmp).                 *)
(***************************************************************************)
EXTENDS Integers, Sequences, FiniteSets, TLC

\* ------------------------------------------------------------------ bounds
MaxRows == 3        \* data rows (after the header) of the accession file
MaxNodeLines == 2   \* lines of nodes.dmp
MaxNameLines == 2   \* lines of names.dmp

\* ------------------------------------------------------- program constants
DefaultChunk == 500 \* def accession2taxid(self, acc2taxid=None, chunk=500)

None == "None"

\* --------------------------------------------------------- string helpers
Min(a, b) == IF a <= b THEN a ELSE b

\* Index of the first occurrence of character c in s, 0 when absent.
FirstIndex(s, c) ==
    IF \E i \in 1..Len(s) : s[i] = c
    THEN CHOOSE i \in 1..Len(s) : s[i] = c /\ \A j \in 1..(i - 1) : s[j] # c
    ELSE 0

\* str.split(sep) with a one-character separator.
RECURSIVE Split(_, _)
Split(s, sep) ==
    LET i == FirstIndex(s, sep) IN
    IF i = 0 THEN <<s>>
    ELSE <<SubSeq(s, 1, i - 1)>> \o Split(SubSeq(s, i + 1, Len(s)), sep)

\* str.rstrip(c): drops every trailing c.
RECURSIVE RStrip(_, _)
RStrip(s, c) ==
    IF Len(s) > 0 /\ s[Len(s)] = c THEN RStrip(SubSeq(s, 1, Len(s) - 1), c) ELSE s

\* str.lstrip(c): drops every leading c.
RECURSIVE LStrip(_, _)
LStrip(s, c) ==
    IF Len(s) > 0 /\ s[1] = c THEN LStrip(SubSeq(s, 2, Len(s)), c) ELSE s

\* str.strip(c)
Strip(s, c) == RStrip(LStrip(s, c), c)

\* 'x' in s, for a one-character x.
Contains(s, c) == \E i \in 1..Len(s) : s[i] = c

Digit == <<"0", "1", "2", "3", "4", "5", "6", "7", "8", "9">>

\* str(n) for a non-negative integer.
RECURSIVE IntToStr(_)
IntToStr(n) ==
    IF n < 10 THEN <<Digit[n + 1]>>
    ELSE IntToStr(n \div 10) \o <<Digit[(n % 10) + 1]>>

\* Concatenation of a sequence of sequences.
RECURSIVE Flatten(_)
Flatten(ss) == IF ss = <<>> THEN <<>> ELSE Head(ss) \o Flatten(Tail(ss))

\* All sequences over S of length at most n.
SeqUpTo(S, n) == UNION {[1..k -> S] : k \in 0..n}

\* ------------------------------------------------------------ file system
Paths == {"nodes.dmp", "names.dmp", "acc.gz", "dir", "missing"}

\* What os.path.exists / os.path.isfile answer for each path.
PathKind ==
    [p \in Paths |-> IF p = "dir" THEN "dir"
                     ELSE IF p = "missing" THEN "missing" ELSE "file"]

\* check_file with the isfile test left out.
check_file_no_isfile(element) ==
    IF element = None THEN "SystemExit"
    ELSE IF PathKind[element] = "missing" THEN "SystemExit"
    ELSE "True"

\* TaxaParser.check_file: "True", or "SystemExit" raised by fatal().
check_file(element) ==
    IF element = None THEN "SystemExit"
    ELSE IF PathKind[element] = "missing" THEN "SystemExit"
    ELSE IF PathKind[element] # "file" THEN "SystemExit"
    ELSE "True"

VARIABLES
    \* the store
    Taxa,             \* Taxa.ncbi_taxid column: a set of integers
    AccessionTable,   \* Accession.accession column: a set of strings
    \* Accession2TaxidParser
    acc_file, self_chunk, fast,
    gz,                \* lines of the gzip file behind "acc.gz"
    pc_a,              \* "ready", "loop", "yield" (suspended at the yield of
                       \* a full batch), "yield_last" (suspended at the
                       \* yield of the last batch), "done", "SystemExit",
                       \* "IndexError", "UnboundLocalError"
    taxids, accessions, entries, counter, chunk, chunk_given,
    accessions_bound,  \* whether the local name `accessions` was assigned
    modes_read,        \* the values of self.fast the pass has read so far
    f_pos,             \* index in gz of the line of the next iteration (it
                       \* stays on the line at which an exception is raised)
    yielded,           \* the batches yielded so far, in order
    \* TaxaDumpParser
    nodes_file, names_file,
    nodes_dmp,         \* lines of the file behind "nodes.dmp"
    names_dmp,         \* lines of the file behind "names.dmp"
    pc_d,              \* "ready", "nodes", "names", "merge", "done",
                       \* "SystemExit", "IndexError"
    ncbi_ids, nodes_data, names_data,
    d_pos,             \* index of the next line of the file being read
    taxa_info_list,    \* the list taxdump returns
    \* the setters
    ctor,              \* the paths given to the constructors
    ret                \* the last setter call: operation, argument, outcome

accVars == <<acc_file, self_chunk, fast, gz, pc_a, taxids, accessions, entries,
             counter, chunk, chunk_given, accessions_bound, modes_read, f_pos,
             yielded>>
dumpVars == <<nodes_file, names_file, nodes_dmp, names_dmp, pc_d, ncbi_ids,
              nodes_data, names_data, d_pos, taxa_info_list>>
setVars == <<ctor, ret>>
storeVars == <<Taxa, AccessionTable>>
vars == <<storeVars, accVars, dumpVars, setVars>>

\* The variables of a parser that a specification does not exercise.
AccIdle ==
    /\ acc_file = None /\ self_chunk = DefaultChunk /\ fast = FALSE /\ gz = <<>>
    /\ pc_a = "idle" /\ taxids = {} /\ accessions = {} /\ entries = <<>>
    /\ counter = 0 /\ chunk = 0 /\ chunk_given = FALSE /\ f_pos = 1
    /\ yielded = <<>> /\ accessions_bound = FALSE /\ modes_read = {}

DumpIdle ==
    /\ nodes_file = None /\ names_file = None /\ nodes_dmp = <<>>
    /\ names_dmp = <<>> /\ pc_d = "idle" /\ ncbi_ids = {} /\ nodes_data = <<>>
    /\ names_data = <<>> /\ d_pos = 1 /\ taxa_info_list = <<>>

SetIdle ==
    /\ ctor = [nodes_file |-> nodes_file, names_file |-> names_file,
               acc_file |-> acc_file]
    /\ ret = [op |-> "none", arg |-> None, outcome |-> "none"]

\* ------------------------------------------------- accession2taxid inputs
TaxaTables == {{}, {1}, {1, 2}}
AccessionTables == {{}, {<<"A">>}}

\* First lines: a regular header, and a line that looks like an eligible row.
HeaderLines ==
    { <<"a", "\t", "v", "\t", "t", "\t", "g", "\n">>,
      <<"A", "\t", "v", "\t", "1", "\n">> }

\* Data rows: accession \t accession.version \t taxid [\t gi] \n
RowLines ==
    { <<"A", "\t", "v", "\t", "1", "\n">>,
      <<"B", "\t", "v", "\t", "1", "\t", "g", "\n">>,
      <<"A", "\t", "v", "\t", "2", "\n">>,
      <<"A", "\t", "v", "\n">> }

AccFiles ==
    {<<>>} \cup {<<h>> \o rows : h \in HeaderLines, rows \in SeqUpTo(RowLines, MaxRows)}

\* The chunk argument of a call: left out (the signature's default applies)
\* or given explicitly; 0 is the falsy value.
ChunkCalls ==
    {[given |-> FALSE, value |-> DefaultChunk]}
        \cup {[given |-> TRUE, value |-> c] : c \in {0, 1, 2}}

PathArgs(own) == {None, own, "dir", "missing"}

\* --------------------------------------------------- accession2taxid code
\* line.decode().split('\t'), the trailing newline kept.
ParseAccLine_keep_newline(line) == Split(line, "\t")

\* line.decode().rstrip('\n').split('\t')
ParseAccLine(line) == Split(RStrip(line, "\n"), "\t")

\* The taxid filter left out.
TaxidKnown_always(line_list, ids) == TRUE

\* not (line_list[2] not in taxids)
TaxidKnown(line_list, ids) == line_list[3] \in ids

\* The accession recorded whatever the store answers.
SeenAfter_always(seen, acc, table) == seen \cup {acc}

\* try: Accession.get(...) except DoesNotExist: accessions[acc] = True
SeenAfter(seen, acc, table) == IF acc \in table THEN seen ELSE seen \cup {acc}

\* if not chunk: chunk = self.chunk
EffectiveChunk(chunk_in, stored) == IF chunk_in = 0 THEN stored ELSE chunk_in

\* The last batch yielded even when empty.
FinalYield_unconditional(ys, es) == Append(ys, es)

\* if len(entries): yield(entries)
FinalYield(ys, es) == IF Len(es) > 0 THEN Append(ys, es) ELSE ys

InitAcc ==
    /\ Taxa \in TaxaTables
    /\ AccessionTable \in AccessionTables
    /\ acc_file \in {None, "acc.gz"}
    /\ self_chunk \in {1, 2}
    /\ fast \in BOOLEAN
    /\ gz \in AccFiles
    /\ pc_a = "ready"
    /\ taxids = {}
    /\ accessions = {}
    /\ accessions_bound = FALSE
    /\ modes_read = {}
    /\ entries = <<>>
    /\ counter = 0
    /\ chunk = 0
    /\ chunk_given = FALSE
    /\ f_pos = 1
    /\ yielded = <<>>
    /\ DumpIdle
    /\ SetIdle

\* First pull of the generator, up to the start of the loop.  `accessions`
\* is assigned only when self.fast is false at that moment.
accession2taxid_begin(acc2taxid, call) ==
    /\ pc_a = "ready"
    /\ entries' = <<>>
    /\ counter' = 0
    /\ taxids' = {IntToStr(x) : x \in Taxa}
    /\ accessions' = {}
    /\ accessions_bound' = ~fast
    /\ modes_read' = {fast}
    /\ chunk_given' = call.given
    /\ LET path == IF acc2taxid = None THEN acc_file ELSE acc2taxid IN
       IF check_file(path) # "True"
       THEN /\ pc_a' = "SystemExit"
            /\ chunk' = call.value
            /\ f_pos' = f_pos
       ELSE /\ pc_a' = "loop"
            /\ chunk' = EffectiveChunk(call.value, self_chunk)
            /\ f_pos' = Min(2, Len(gz) + 1)      \* f.readline()
    /\ UNCHANGED <<storeVars, dumpVars, setVars, acc_file, self_chunk, fast, gz,
                   yielded>>

\* One iteration of `for line in f`, up to the next iteration or to the
\* yield of a full batch, where the generator is suspended with entries and
\* counter as they are.
accession2taxid_line ==
    /\ pc_a = "loop"
    /\ f_pos <= Len(gz)
    /\ LET line_list == ParseAccLine(gz[f_pos]) IN
       IF Len(line_list) < 3
       THEN /\ pc_a' = "IndexError"
            /\ UNCHANGED <<f_pos, accessions, entries, counter, yielded, modes_read>>
       ELSE IF ~TaxidKnown(line_list, taxids)
       THEN /\ f_pos' = f_pos + 1
            /\ UNCHANGED <<pc_a, accessions, entries, counter, yielded, modes_read>>
       ELSE IF ~fast /\ ~accessions_bound
       THEN /\ pc_a' = "UnboundLocalError"
            /\ modes_read' = modes_read \cup {fast}
            /\ UNCHANGED <<f_pos, accessions, entries, counter, yielded>>
       ELSE IF ~fast /\ line_list[1] \in accessions
       THEN /\ f_pos' = f_pos + 1
            /\ modes_read' = modes_read \cup {fast}
            /\ UNCHANGED <<pc_a, accessions, entries, counter, yielded>>
       ELSE LET data_dict == [accession |-> line_list[1], taxid |-> line_list[3]]
                es == Append(entries, data_dict)
            IN /\ f_pos' = f_pos + 1
               /\ modes_read' = modes_read \cup {fast}
               /\ accessions' = IF fast THEN accessions
                                ELSE SeenAfter(accessions, line_list[1], AccessionTable)
               /\ entries' = es
               /\ counter' = counter + 1
               /\ IF counter + 1 = chunk
                  THEN /\ yielded' = Append(yielded, es)
                       /\ pc_a' = "yield"
                  ELSE /\ yielded' = yielded
                       /\ pc_a' = pc_a
    /\ UNCHANGED <<storeVars, dumpVars, setVars, acc_file, self_chunk, fast, gz,
                   taxids, chunk, chunk_given, accessions_bound>>

\* The caller pulls again after a full batch: entries = []; counter = 0.
accession2taxid_resume ==
    /\ pc_a = "yield"
    /\ entries' = <<>>
    /\ counter' = 0
    /\ pc_a' = "loop"
    /\ UNCHANGED <<storeVars, dumpVars, setVars, acc_file, self_chunk, fast, gz,
                   taxids, accessions, chunk, chunk_given, accessions_bound,
                   modes_read, f_pos, yielded>>

\* The input is exhausted: the last, partial batch is yielded if there is
\* one, and the generator is suspended there.
accession2taxid_end ==
    /\ pc_a = "loop"
    /\ f_pos > Len(gz)
    /\ yielded' = FinalYield(yielded, entries)
    /\ pc_a' = IF FinalYield(yielded, entries) # yielded THEN "yield_last" ELSE "done"
    /\ UNCHANGED <<storeVars, dumpVars, setVars, acc_file, self_chunk, fast, gz,
                   taxids, accessions, entries, counter, chunk, chunk_given,
                   accessions_bound, modes_read, f_pos>>

\* The caller pulls after the last batch: the generator returns.
accession2taxid_stop ==
    /\ pc_a = "yield_last"
    /\ pc_a' = "done"
    /\ UNCHANGED <<storeVars, dumpVars, setVars, acc_file, self_chunk, fast, gz,
                   taxids, accessions, entries, counter, chunk, chunk_given,
                   accessions_bound, modes_read, f_pos, yielded>>

\* While the generator is suspended the caller runs; it may assign the
\* parser's fast attribute, which the loop reads again at each row.
caller_sets_fast ==
    /\ pc_a \in {"yield", "yield_last"}
    /\ fast' = ~fast
    /\ UNCHANGED <<storeVars, dumpVars, setVars, acc_file, self_chunk, gz, pc_a,
                   taxids, accessions, entries, counter, chunk, chunk_given,
                   accessions_bound, modes_read, f_pos, yielded>>

accession2taxid_call ==
    \E acc2taxid \in PathArgs("acc.gz"), call \in ChunkCalls :
        accession2taxid_begin(acc2taxid, call)

NextAcc ==
    \/ accession2taxid_call
    \/ accession2taxid_line
    \/ accession2taxid_resume
    \/ accession2taxid_end
    \/ accession2taxid_stop
    \/ caller_sets_fast

SpecAcc == InitAcc /\ [][NextAcc]_vars

\* --------------------------------------------------------- taxdump inputs
\* nodes.dmp lines: id | parent | rank | ...
NodeLines ==
    { <<"1", "\t", "|", "\t", "1", "\t", "|", "\t", "r", "\t", "|", "\n">>,
      <<"2", "\t", "|", "\t", "1", "\t", "|", "\t", "g", "\t", "|", "\n">>,
      <<"3", "|", "2", "|", "s">>,
      <<"2", "\t", "|", "\n">> }

\* names.dmp lines: id | name | unique name | name class | ; "S" is the
\* text 'scientific name', "y" another name class.
NameLines ==
    { <<"1", "\t", "|", "\t", "a", "\t", "|", "\t", "|", "\t", "S", "\t", "|", "\n">>,
      <<"2", "\t", "|", "\t", "b", "\t", "|", "\t", "|", "\t", "S", "\t", "|", "\n">>,
      <<"2", "\t", "|", "\t", "c", "\t", "|", "\t", "|", "\t", "y", "\t", "|", "\n">>,
      <<"3", "|", "d", "|", "S">>,
      <<"S", "\n">> }

\* The lines a text file splits into: only the last may lack its newline.
IsTextFile(f) == \A i \in 1..(Len(f) - 1) : f[i][Len(f[i])] = "\n"

NodesFiles == {f \in SeqUpTo(NodeLines, MaxNodeLines) : IsTextFile(f)}
NamesFiles == {f \in SeqUpTo(NameLines, MaxNameLines) : IsTextFile(f)}

\* ----------------------------------------------------------- taxdump code
\* The id test of the names loop left out.
NameKnown_never(ncbi_id, ids) == FALSE

\* if ncbi_id in ncbi_ids: continue       (names loop)
NameKnown(ncbi_id, ids) == ncbi_id \in ids

\* if ncbi_id in ncbi_ids: continue       (nodes loop)
NodeKnown(ncbi_id, ids) == ncbi_id \in ids

\* {**b, **a}: the left dictionary wins.
DictMerge_left_wins(a, b) ==
    [k \in DOMAIN a \cup DOMAIN b |-> IF k \in DOMAIN a THEN a[k] ELSE b[k]]

\* {**a, **b}
DictMerge(a, b) ==
    [k \in DOMAIN a \cup DOMAIN b |-> IF k \in DOMAIN b THEN b[k] ELSE a[k]]

\* [ {**nodes, **names} for nodes, names in zip(nodes_data, names_data) ]
ZipMerge(nd, md) == [i \in 1..Min(Len(nd), Len(md)) |-> DictMerge(nd[i], md[i])]

InitDump ==
    /\ Taxa \in TaxaTables
    /\ AccessionTable = {}
    /\ nodes_file \in {None, "nodes.dmp"}
    /\ names_file \in {None, "names.dmp"}
    /\ nodes_dmp \in NodesFiles
    /\ names_dmp \in NamesFiles
    /\ pc_d = "ready"
    /\ ncbi_ids = {}
    /\ nodes_data = <<>>
    /\ names_data = <<>>
    /\ d_pos = 1
    /\ taxa_info_list = <<>>
    /\ AccIdle
    /\ SetIdle

\* Path resolution, the two check_file calls and the query of the store.
taxdump_begin(nodes_arg, names_arg) ==
    /\ pc_d = "ready"
    /\ LET nodes_path == IF nodes_arg = None THEN nodes_file ELSE nodes_arg
           names_path == IF names_arg = None THEN names_file ELSE names_arg
       IN IF check_file(names_path) # "True" \/ check_file(nodes_path) # "True"
          THEN /\ pc_d' = "SystemExit"
               /\ UNCHANGED ncbi_ids
          ELSE /\ pc_d' = "nodes"
               /\ ncbi_ids' = {IntToStr(x) : x \in Taxa}
    /\ UNCHANGED <<storeVars, accVars, setVars, nodes_file, names_file, nodes_dmp,
                   names_dmp, nodes_data, names_data, d_pos, taxa_info_list>>

\* One iteration of the loop over nodes.dmp.
taxdump_nodes_line ==
    /\ pc_d = "nodes"
    /\ d_pos <= Len(nodes_dmp)
    /\ LET line_list == Split(nodes_dmp[d_pos], "|")
           ncbi_id == Strip(line_list[1], "\t")
       IN IF NodeKnown(ncbi_id, ncbi_ids)
          THEN /\ d_pos' = d_pos + 1
               /\ UNCHANGED <<pc_d, nodes_data>>
          ELSE IF Len(line_list) < 3
          THEN /\ pc_d' = "IndexError"
               /\ UNCHANGED <<d_pos, nodes_data>>
          ELSE /\ d_pos' = d_pos + 1
               /\ nodes_data' = Append(nodes_data,
                      [ncbi_taxid |-> ncbi_id,
                       parent_taxid |-> Strip(line_list[2], "\t"),
                       tax_name |-> <<>>,
                       lineage_level |-> Strip(line_list[3], "\t")])
               /\ UNCHANGED pc_d
    /\ UNCHANGED <<storeVars, accVars, setVars, nodes_file, names_file, nodes_dmp,
                   names_dmp, ncbi_ids, names_data, taxa_info_list>>

\* nodes.dmp is exhausted: names.dmp is opened.
taxdump_nodes_eof ==
    /\ pc_d = "nodes"
    /\ d_pos > Len(nodes_dmp)
    /\ pc_d' = "names"
    /\ d_pos' = 1
    /\ UNCHANGED <<storeVars, accVars, setVars, nodes_file, names_file, nodes_dmp,
                   names_dmp, ncbi_ids, nodes_data, names_data, taxa_info_list>>

\* One iteration of the loop over names.dmp.
taxdump_names_line ==
    /\ pc_d = "names"
    /\ d_pos <= Len(names_dmp)
    /\ LET line == names_dmp[d_pos]
           line_list == Split(line, "|")
           ncbi_id == Strip(line_list[1], "\t")
       IN IF ~Contains(line, "S")
          THEN /\ d_pos' = d_pos + 1
               /\ UNCHANGED <<pc_d, names_data>>
          ELSE IF NameKnown(ncbi_id, ncbi_ids)
          THEN /\ d_pos' = d_pos + 1
               /\ UNCHANGED <<pc_d, names_data>>
          ELSE IF Len(line_list) < 2
          THEN /\ pc_d' = "IndexError"
               /\ UNCHANGED <<d_pos, names_data>>
          ELSE /\ d_pos' = d_pos + 1
               /\ names_data' = Append(names_data,
                      [ncbi_taxid |-> Strip(line_list[1], "\t"),
                       tax_name |-> Strip(line_list[2], "\t")])
               /\ UNCHANGED pc_d
    /\ UNCHANGED <<storeVars, accVars, setVars, nodes_file, names_file, nodes_dmp,
                   names_dmp, ncbi_ids, nodes_data, taxa_info_list>>

\* names.dmp is exhausted: the two lists are merged and returned.
taxdump_merge ==
    /\ pc_d = "names"
    /\ d_pos > Len(names_dmp)
    /\ taxa_info_list' = ZipMerge(nodes_data, names_data)
    /\ pc_d' = "done"
    /\ UNCHANGED <<storeVars, accVars, setVars, nodes_file, names_file, nodes_dmp,
                   names_dmp, ncbi_ids, nodes_data, names_data, d_pos>>

taxdump_call ==
    \E nodes_arg \in PathArgs("nodes.dmp"), names_arg \in PathArgs("names.dmp") :
        taxdump_begin(nodes_arg, names_arg)

NextDump ==
    \/ taxdump_call
    \/ taxdump_nodes_line
    \/ taxdump_nodes_eof
    \/ taxdump_names_line
    \/ taxdump_merge

SpecDump == InitDump /\ [][NextDump]_vars

\* ------------------------------------------------------------ the setters
InitSet ==
    /\ Taxa = {}
    /\ AccessionTable = {}
    /\ nodes_file \in Paths \cup {None}
    /\ names_file \in Paths \cup {None}
    /\ acc_file \in Paths \cup {None}
    /\ self_chunk = DefaultChunk /\ fast = FALSE /\ gz = <<>>
    /\ pc_a = "idle" /\ taxids = {} /\ accessions = {} /\ entries = <<>>
    /\ counter = 0 /\ chunk = 0 /\ chunk_given = FALSE /\ f_pos = 1
    /\ yielded = <<>> /\ accessions_bound = FALSE /\ modes_read = {}
    /\ nodes_dmp = <<>> /\ names_dmp = <<>> /\ pc_d = "idle" /\ ncbi_ids = {}
    /\ nodes_data = <<>> /\ names_data = <<>> /\ d_pos = 1
    /\ taxa_info_list = <<>>
    /\ SetIdle

\* The outcome of a setter's two guards.
SetterOutcome(path) == IF path = None THEN "SystemExit" ELSE check_file(path)

set_nodes_file(path) ==
    /\ ret' = [op |-> "set_nodes_file", arg |-> path, outcome |-> SetterOutcome(path)]
    /\ nodes_file' = IF SetterOutcome(path) = "True" THEN path ELSE nodes_file
    /\ UNCHANGED <<storeVars, accVars, ctor, names_file, nodes_dmp, names_dmp, pc_d,
                   ncbi_ids, nodes_data, names_data, d_pos, taxa_info_list>>

set_names_file(path) ==
    /\ ret' = [op |-> "set_names_file", arg |-> path, outcome |-> SetterOutcome(path)]
    /\ names_file' = IF SetterOutcome(path) = "True" THEN path ELSE names_file
    /\ UNCHANGED <<storeVars, accVars, ctor, nodes_file, nodes_dmp, names_dmp, pc_d,
                   ncbi_ids, nodes_data, names_data, d_pos, taxa_info_list>>

set_accession_file(path) ==
    /\ ret' = [op |-> "set_accession_file", arg |-> path,
               outcome |-> SetterOutcome(path)]
    /\ acc_file' = IF SetterOutcome(path) = "True" THEN path ELSE acc_file
    /\ UNCHANGED <<storeVars, dumpVars, ctor, self_chunk, fast, gz, pc_a, taxids,
                   accessions, entries, counter, chunk, chunk_given,
                   accessions_bound, modes_read, f_pos, yielded>>

NextSet ==
    \/ \E path \in Paths \cup {None} : set_nodes_file(path)
    \/ \E path \in Paths \cup {None} : set_names_file(path)
    \/ \E path \in Paths \cup {None} : set_accession_file(path)

SpecSet == InitSet /\ [][NextSet]_vars

\* ------------------------------------------------ reading the input files
\* The definitions below say what a line of an input file means, by the
\* positions of its separators; the properties are stated with them.

SepPositions(s, sep) == {i \in 1..Len(s) : s[i] = sep}

\* The k-th smallest element of a set of integers.
NthOf(S, k) == CHOOSE e \in S : Cardinality({x \in S : x < e}) = k - 1

NumFields(s, sep) == Cardinality(SepPositions(s, sep)) + 1

\* The k-th field of s, for 1 <= k <= NumFields(s, sep).
FieldOf(s, sep, k) ==
    LET P == SepPositions(s, sep)
        from == IF k = 1 THEN 1 ELSE NthOf(P, k - 1) + 1
        to == IF k = Cardinality(P) + 1 THEN Len(s) ELSE NthOf(P, k) - 1
    IN SubSeq(s, from, to)

\* s without the characters c at its two ends.
Trimmed(s, c) ==
    LET keep == {i \in 1..Len(s) : s[i] # c} IN
    IF keep = {} THEN <<>>
    ELSE SubSeq(s, CHOOSE i \in keep : \A j \in keep : i <= j,
                   CHOOSE i \in keep : \A j \in keep : j <= i)

\* A line of the accession file without its line terminator.
RowText(line) ==
    IF Len(line) > 0 /\ line[Len(line)] = "\n" THEN SubSeq(line, 1, Len(line) - 1)
    ELSE line

RowAccession(line) == FieldOf(RowText(line), "\t", 1)
RowTaxid(line) == FieldOf(RowText(line), "\t", 3)
RowRecord(line) == [accession |-> RowAccession(line), taxid |-> RowTaxid(line)]

\* The taxonomic ids of the store, as strings.
KnownIdSet == {IntToStr(x) : x \in Taxa}

\* Indices of the data rows among the first n lines whose taxid is known.
EligibleRows(n) == {i \in 2..n : RowTaxid(gz[i]) \in KnownIdSet}

\* The records of the eligible rows among the first n lines, in file order.
EligibleRecords(n) ==
    [k \in 1..Cardinality(EligibleRows(n)) |-> RowRecord(gz[NthOf(EligibleRows(n), k)])]

Emitted == Flatten(yielded)

CountOf(seq, acc) == Cardinality({i \in 1..Len(seq) : seq[i].accession = acc})

Suspended == pc_a \in {"yield", "yield_last"}

Running ==
    pc_a \in {"loop", "yield", "yield_last", "done", "IndexError",
              "UnboundLocalError"}

\* The batches handed to the caller and the open batch, as one sequence (a
\* batch being handed over is still the open batch until the next pull).
Collected == IF Suspended THEN Emitted ELSE Emitted \o entries

\* A pass all of whose reads of self.fast gave the same value.
FastPass == modes_read = {TRUE}
DefaultPass == modes_read = {FALSE}

\* -------------------------------------------------------------- C1 .. C10

\* C1: with a chunk size n >= 1, every yielded batch except possibly the
\* last has exactly n records, the last has between 1 and n, no batch is
\* empty, and no batch at all is yielded when no row is eligible.
C1_BatchSizes ==
    (Running /\ chunk >= 1) =>
        /\ \A i \in 1..Len(yielded) :
              /\ Len(yielded[i]) >= 1
              /\ Len(yielded[i]) <= chunk
              /\ (i < Len(yielded) \/ pc_a \notin {"yield_last", "done"})
                    => Len(yielded[i]) = chunk
        /\ (pc_a = "done" /\ EligibleRows(Len(gz)) = {}) => yielded = <<>>

C1_Witness ==
    /\ pc_a = "done"
    /\ chunk = 2
    /\ Len(yielded) = 2
    /\ Len(yielded[1]) = 2
    /\ Len(yielded[2]) = 1

\* C2: an accession that occurs more than once with a known taxonomic id is
\* emitted exactly once by a default-mode pass, whatever the store holds,
\* and once per occurrence by a fast-mode pass.
C2_OncePerAccession ==
    (pc_a = "done" /\ (FastPass \/ DefaultPass)) =>
        \A i \in EligibleRows(Len(gz)) :
            LET acc == RowAccession(gz[i])
                occ == Cardinality({j \in EligibleRows(Len(gz)) :
                                        RowAccession(gz[j]) = acc})
            IN occ > 1 => CountOf(Emitted, acc) = (IF FastPass THEN occ ELSE 1)

\* C3: every record of every batch has a taxonomic id of the KnownIdSet
\* loaded by the invocation, and rows with another id are not counted.
C3_KnownTaxidsOnly ==
    Running =>
        /\ \A i \in 1..Len(Emitted \o entries) :
              (Emitted \o entries)[i].taxid \in taxids
        /\ pc_a = "yield" => entries = yielded[Len(yielded)]
        /\ \A i \in 1..Len(yielded) : \A j \in 1..Len(yielded[i]) :
              yielded[i][j].taxid \in KnownIdSet
        /\ counter = Len(entries)
        /\ pc_a = "loop" =>
              Len(Emitted) + counter <= Cardinality(EligibleRows(f_pos - 1))

C3_Witness ==
    /\ pc_a = "done"
    /\ yielded # <<>>
    /\ \E i \in 2..Len(gz) : RowTaxid(gz[i]) \notin KnownIdSet

\* C6: called without a chunk size, accession2taxid uses the chunk size
\* stored on the parser by the constructor.
C6_StoredChunkByDefault ==
    (Running /\ ~chunk_given) => chunk = self_chunk

\* C9: in default mode a row with a known taxonomic id and an accession not
\* yet seen is emitted whether or not the store holds the accession; the
\* accession joins the seen set only if the store does not hold it; the
\* seen set never shrinks.
C9_Step ==
    /\ accessions \subseteq accessions'
    /\ (/\ pc_a = "loop" /\ ~fast /\ accessions_bound /\ f_pos' = f_pos + 1
        /\ RowTaxid(gz[f_pos]) \in KnownIdSet
        /\ RowAccession(gz[f_pos]) \notin accessions)
       => /\ entries' = Append(entries, RowRecord(gz[f_pos]))
          /\ yielded' \in {yielded, Append(yielded, entries')}
          /\ accessions' = IF RowAccession(gz[f_pos]) \in AccessionTable
                           THEN accessions
                           ELSE accessions \cup {RowAccession(gz[f_pos])}

C9_LookupNeverGates == [][C9_Step]_vars

C9_Witness ==
    /\ pc_a = "loop"
    /\ ~fast
    /\ accessions_bound
    /\ \E i \in 1..Len(Emitted \o entries) :
          /\ (Emitted \o entries)[i].accession \in AccessionTable
          /\ (Emitted \o entries)[i].accession \notin accessions
    /\ accessions # {}

\* C10: in fast mode the batches of a full pass, concatenated, are exactly
\* the records of the lines after the first whose taxid is known, in file
\* order; during the pass the batches and the open batch together are the
\* records of the lines read so far.
C10_Conservation ==
    FastPass =>
        /\ pc_a \in {"loop", "yield"} => Collected = EligibleRecords(f_pos - 1)
        /\ pc_a \in {"yield_last", "done"} => Emitted = EligibleRecords(Len(gz))

C10_Witness ==
    /\ FastPass
    /\ pc_a = "done"
    /\ Len(yielded) >= 2
    /\ RowTaxid(gz[1]) \in KnownIdSet
    /\ Len(Emitted) = Len(gz) - 1

\* What a line of nodes.dmp or names.dmp means.
DmpId(line) == Trimmed(FieldOf(line, "|", 1), "\t")
NodeParent(line) == Trimmed(FieldOf(line, "|", 2), "\t")
NodeRank(line) == Trimmed(FieldOf(line, "|", 3), "\t")
NameText(line) == Trimmed(FieldOf(line, "|", 2), "\t")
IsScientificName(line) == \E i \in 1..Len(line) : line[i] = "S"

\* Indices of the nodes rows whose id is not in the store (N), and of the
\* 'scientific name' rows whose id is not in the store (M).
NewNodeRows == {i \in 1..Len(nodes_dmp) : DmpId(nodes_dmp[i]) \notin KnownIdSet}
NewNameRows ==
    {i \in 1..Len(names_dmp) :
        IsScientificName(names_dmp[i]) /\ DmpId(names_dmp[i]) \notin KnownIdSet}

\* C4: no record returned by taxdump has an ncbi_taxid of the KnownIdSet.
C4_NoKnownIdReturned ==
    \A i \in 1..Len(taxa_info_list) : taxa_info_list[i].ncbi_taxid \notin KnownIdSet

C4_Witness ==
    /\ pc_d = "done"
    /\ taxa_info_list # <<>>
    /\ \E i \in 1..Len(names_dmp) :
          IsScientificName(names_dmp[i]) /\ DmpId(names_dmp[i]) \in KnownIdSet
    /\ \E i \in 1..Len(nodes_dmp) : DmpId(nodes_dmp[i]) \in KnownIdSet

\* C5: every returned record has the parent_taxid and the lineage_level of
\* a nodes-file row whose id is the record's ncbi_taxid.
C5_JoinedById ==
    pc_d = "done" =>
        \A i \in 1..Len(taxa_info_list) :
            \E j \in NewNodeRows :
                /\ DmpId(nodes_dmp[j]) = taxa_info_list[i].ncbi_taxid
                /\ NodeParent(nodes_dmp[j]) = taxa_info_list[i].parent_taxid
                /\ NodeRank(nodes_dmp[j]) = taxa_info_list[i].lineage_level

\* C8: the result has length min(|N|, |M|) and its i-th record takes
\* ncbi_taxid and tax_name from M[i], parent_taxid and lineage_level from
\* N[i].
C8_MergeByPosition ==
    pc_d = "done" =>
        /\ Len(taxa_info_list)
              = Min(Cardinality(NewNodeRows), Cardinality(NewNameRows))
        /\ \A i \in 1..Len(taxa_info_list) :
              LET n == nodes_dmp[NthOf(NewNodeRows, i)]
                  m == names_dmp[NthOf(NewNameRows, i)]
              IN taxa_info_list[i] =
                    [ncbi_taxid |-> DmpId(m), tax_name |-> NameText(m),
                     parent_taxid |-> NodeParent(n), lineage_level |-> NodeRank(n)]

C8_Witness ==
    /\ pc_d = "done"
    /\ Cardinality(NewNodeRows) > Cardinality(NewNameRows)
    /\ taxa_info_list # <<>>
    /\ taxa_info_list[1].ncbi_taxid # DmpId(nodes_dmp[NthOf(NewNodeRows, 1)])

\* C7: a setter fails and leaves the stored path alone when the new path is
\* unset, missing or not a regular file; otherwise it stores the path and
\* returns true.  A stored path is the constructor's or a validated one.
RegularFile(path) == path \in Paths /\ PathKind[path] = "file"

Stored(op) ==
    IF op = "set_nodes_file" THEN nodes_file
    ELSE IF op = "set_names_file" THEN names_file ELSE acc_file

StoredNext(op) ==
    IF op = "set_nodes_file" THEN nodes_file'
    ELSE IF op = "set_names_file" THEN names_file' ELSE acc_file'

C7_Inv ==
    /\ nodes_file = ctor.nodes_file \/ RegularFile(nodes_file)
    /\ names_file = ctor.names_file \/ RegularFile(names_file)
    /\ acc_file = ctor.acc_file \/ RegularFile(acc_file)

C7_Step ==
    LET call == ret' IN
    call.op # "none" =>
        /\ RegularFile(call.arg) =>
              call.outcome = "True" /\ StoredNext(call.op) = call.arg
        /\ ~RegularFile(call.arg) =>
              call.outcome = "SystemExit" /\ StoredNext(call.op) = Stored(call.op)
        /\ \A op \in {"set_nodes_file", "set_names_file", "set_accession_file"} :
              op # call.op => StoredNext(op) = Stored(op)

C7_SettersValidateFirst == [](C7_Inv) /\ [][C7_Step]_vars

C7_Witness ==
    /\ ret = [op |-> "set_nodes_file", arg |-> "dir", outcome |-> "SystemExit"]
    /\ ctor.nodes_file = "missing"
    /\ nodes_file = "names.dmp"
    /\ acc_file = "acc.gz"
    /\ ctor.acc_file = None

====
